---- MODULE Spec2Model ----
(***************************************************************************)
(* Model of lib/defend/mock_telemetry.py: a main thread that re-creates    *)
(* the shared log file and starts one daemon listener thread per port,     *)
(* and the request handler (do_POST / do_GET) that each listener runs.     *)
(*                                                                         *)
(* Text is modelled as it is processed: a request body is a sequence of    *)
(* byte values, decoding turns it into a sequence of code points, and the  *)
(* log file is the sequence of its lines (every write of the program ends  *)
(* with a newline, so the file always holds whole lines).  A line is a     *)
(* sequence of pieces of text: one character for each code point that      *)
(* comes from a body and for each dash of the separator, one piece for     *)
(* each fixed or formatted part of an f-string.                            *)
(***************************************************************************)
EXTENDS Integers, Sequences, FiniteSets, TLC

\* ---------------------------------------------------------------- bounds

\* Requests that clients send to a process whose listeners are all up.
MaxRequests == 2

\* Requests that clients send to a process observed from its start.
MaxEarlyRequests == 1

\* Seconds the wall clock may advance during one run.
MaxClock == 1

\* Capacity of the buffer of a text file object, in the units of LineSize
\* (io.DEFAULT_BUFFER_SIZE in the interpreter, scaled down).
BufferSize == 22

\* ------------------------------------------------------- program constants

\* main, the "servers" list.
servers ==
    << [port |-> 4317,  name |-> "OpenTelemetry GRPC"],
       [port |-> 4318,  name |-> "OpenTelemetry HTTP"],
       [port |-> 16686, name |-> "Jaeger UI"] >>

Ports == { servers[i].port : i \in DOMAIN servers }

\* start_server: the errno it tells apart from every other one.
EADDRINUSE == 98

\* What a bind on a port meets: 0 when the port is free, else the errno of the
\* OSError it raises: EADDRINUSE, or another one (13, permission denied).
\* Every subset of the ports may fail; a failing 4317 fails with the other
\* errno, a failing 4318 or 16686 is in use.
BindErrno == [p \in Ports |-> IF p = 4317 THEN 13 ELSE EADDRINUSE]

PortStates ==
    { [p \in Ports |-> IF p \in failing THEN BindErrno[p] ELSE 0] :
        failing \in SUBSET Ports }

\* The listeners bind to 127.0.0.1, so every client is a loopback client.
client_ip == "127.0.0.1"

\* The printable ASCII characters, code points 32 to 126 (three of them by
\* name).
Ascii ==
    << " ", "!", "dquote", "#", "$", "%", "&", "'", "(", ")", "*", "+",
       ",", "-", ".", "/", "0", "1", "2", "3", "4", "5", "6", "7",
       "8", "9", ":", ";", "<", "=", ">", "?", "@", "A", "B", "C",
       "D", "E", "F", "G", "H", "I", "J", "K", "L", "M", "N", "O",
       "P", "Q", "R", "S", "T", "U", "V", "W", "X", "Y", "Z", "[",
       "backslash", "]", "^", "_", "backtick", "a", "b", "c", "d", "e", "f", "g",
       "h", "i", "j", "k", "l", "m", "n", "o", "p", "q", "r", "s",
       "t", "u", "v", "w", "x", "y", "z", "{", "|", "}", "~" >>

\* The character of a code point, as text in a line; a code point outside
\* printable ASCII is written as its number.
Chr(cp) == IF cp \in 32..126 THEN Ascii[cp - 31] ELSE ToString(cp)

\* str of a sequence of code points.
Str(t) == [i \in DOMAIN t |-> Chr(t[i])]

\* "="*50, the second line of the log header, as one piece of text.
RULE == << "==================================================" >>

\* The separator line "---".
SEPARATOR == << "-", "-", "-" >>

\* ------------------------------------------------------------ text helpers

\* bytes.decode('utf-8', errors='ignore'): well-formed sequences become their
\* code point, every other byte is dropped.  One- and two-byte forms; the
\* request bodies of this model hold no lead byte of a longer form.
RECURSIVE decode_ignore(_)
decode_ignore(b) ==
    IF b = << >> THEN << >>
    ELSE IF Head(b) < 128 THEN << Head(b) >> \o decode_ignore(Tail(b))
    ELSE IF Head(b) \in 194..223 /\ Len(b) >= 2 /\ b[2] \in 128..191
         THEN << (Head(b) - 192) * 64 + (b[2] - 128) >> \o decode_ignore(Tail(Tail(b)))
    ELSE decode_ignore(Tail(b))

\* bytes.decode('utf-8') raises UnicodeDecodeError exactly when some byte is
\* not part of a well-formed sequence.
RECURSIVE decode_strict_ok(_)
decode_strict_ok(b) ==
    IF b = << >> THEN TRUE
    ELSE IF Head(b) < 128 THEN decode_strict_ok(Tail(b))
    ELSE IF Head(b) \in 194..223 /\ Len(b) >= 2 /\ b[2] \in 128..191
         THEN decode_strict_ok(Tail(Tail(b)))
    ELSE FALSE

\* JSON whitespace: tab, line feed, carriage return, space.
JsonWs == { 9, 10, 13, 32 }

RECURSIVE DropWs(_)
DropWs(t) ==
    IF t = << >> THEN << >>
    ELSE IF Head(t) \in JsonWs THEN DropWs(Tail(t))
    ELSE << Head(t) >> \o DropWs(Tail(t))

\* json.loads succeeds.  Exact for texts made of the characters the request
\* bodies of this model use ("{", "}", "a", "-", line feed, e-acute): the only
\* JSON documents over them are the empty object with optional whitespace.
json_loads_ok(t) == DropWs(t) = << 123, 125 >>

\* The text-mode encoder of the log file: locale encoding "utf-8" encodes every
\* code point, a single-byte locale ("ascii") raises UnicodeEncodeError on a
\* code point it lacks.
encode_ok(enc, t) == enc = "utf-8" \/ \A i \in DOMAIN t : t[i] < 128

\* The lines of the text  cur + t + "\n", t a sequence of code points.
RECURSIVE SplitLines(_, _)
SplitLines(cur, t) ==
    IF t = << >> THEN << cur >>
    ELSE IF Head(t) = 10 THEN << cur >> \o SplitLines(<< >>, Tail(t))
    ELSE SplitLines(Append(cur, Chr(Head(t))), Tail(t))

\* str.startswith on a header value, a sequence of text chunks.
startswith(v, prefix) == Len(v) >= 1 /\ v[1] = prefix

\* Size of a line in the buffer: its elements and the newline.
LineSize(line) == Len(line) + 1

RECURSIVE TextSize(_)
TextSize(ls) == IF ls = << >> THEN 0 ELSE LineSize(Head(ls)) + TextSize(Tail(ls))

\* bytes[:n]
Take(b, n) == SubSeq(b, 1, IF n < Len(b) THEN n ELSE Len(b))

\* ---------------------------------------------------------------- requests

\* The requests a client sends: the method, the Content-Type value as chunks
\* of text (<< >> when the header is absent), whether a Content-Length header
\* is present and its text as code points, and the bytes after the headers.
Requests ==
    { [method |-> "GET",  ctype |-> << >>, has_clen |-> FALSE, clen |-> << >>,
       body |-> << >>],
      \* a JSON document, Content-Length "2"
      [method |-> "POST", ctype |-> << "application/json" >>,
       has_clen |-> TRUE, clen |-> << 50 >>, body |-> << 123, 125 >>],
      \* malformed JSON, Content-Length "1"
      [method |-> "POST", ctype |-> << "application/json", "; charset=utf-8" >>,
       has_clen |-> TRUE, clen |-> << 49 >>, body |-> << 123 >>],
      \* bytes that are not UTF-8, declared as JSON
      [method |-> "POST", ctype |-> << "application/json" >>,
       has_clen |-> TRUE, clen |-> << 50 >>, body |-> << 255, 97 >>],
      \* bytes that are not UTF-8, declared as protobuf
      [method |-> "POST", ctype |-> << "application/x-protobuf" >>,
       has_clen |-> TRUE, clen |-> << 50 >>, body |-> << 255, 97 >>],
      \* no Content-Length header
      [method |-> "POST", ctype |-> << >>, has_clen |-> FALSE, clen |-> << >>,
       body |-> << 97 >>],
      \* Content-Length "abc"
      [method |-> "POST", ctype |-> << "text/plain" >>,
       has_clen |-> TRUE, clen |-> << 97, 98, 99 >>, body |-> << 97 >>],
      \* a body that makes the entry larger than the buffer, Content-Length "5"
      [method |-> "POST", ctype |-> << "application/octet-stream" >>,
       has_clen |-> TRUE, clen |-> << 53 >>, body |-> << 97, 97, 97, 97, 97 >>],
      \* as large, with a line break and dashes: the text "a\n---"
      [method |-> "POST", ctype |-> << "text/plain" >>,
       has_clen |-> TRUE, clen |-> << 53 >>, body |-> << 97, 10, 45, 45, 45 >>],
      \* well-formed UTF-8 outside ASCII (e-acute), declared as protobuf
      [method |-> "POST", ctype |-> << "application/x-protobuf" >>,
       has_clen |-> TRUE, clen |-> << 50 >>, body |-> << 195, 169 >>] }

\* The requests that clients send while the process is observed from its
\* start: a GET, a POST without headers, and the POST whose entry is larger
\* than the buffer.
EarlyRequests ==
    { r \in Requests :
        \/ r.method = "GET"
        \/ r.ctype \in { << >>, << "application/octet-stream" >> } }

\* int(text): the text is an integer literal (decimal digits here; the
\* Content-Length texts of this model carry no sign, space or underscore).
int_ok(t) == t # << >> /\ \A i \in DOMAIN t : t[i] \in 48..57

RECURSIVE int_value(_)
int_value(t) ==
    IF t = << >> THEN 0 ELSE 10 * int_value(SubSeq(t, 1, Len(t) - 1)) + (t[Len(t)] - 48)

\* dict(self.headers), as it is formatted into the console and the log.
HeadersDict(r) ==
    << "{" >>
    \o (IF r.ctype # << >> THEN << "'Content-Type': " >> \o r.ctype ELSE << >>)
    \o (IF r.has_clen THEN << "'Content-Length': " >> \o Str(r.clen) ELSE << >>)
    \o << "}" >>

\* -------------------------------------------------------------------- state

VARIABLES
    mainPc,       \* where the main thread is in main()
    nextServer,   \* index into servers of the "for port, name in servers" loop
    listener,     \* per port: the state of its thread running start_server
    portState,    \* per port: what a bind on it meets (environment)
    encoding,     \* the locale encoding open() gives the log file (environment)
    clock,        \* wall-clock time, in seconds
    logFile,      \* intercepted_telemetry.log: the lines on disk
    truncations,  \* how often the file was opened with mode 'w'
    handler,      \* per port: the request its listener is handling
    incoming,     \* requests that clients have yet to send in this run
    sent,         \* the responses written to clients, in order
    logged,       \* the entries whose file object was closed, in order
    aborted,      \* requests whose handler raised, in order
    console,      \* the lines printed, as a set of (kind, port)
    exitStatus,   \* how the process ended
    interruptedAt \* where in main the KeyboardInterrupt was raised

vars == << mainPc, nextServer, listener, portState, encoding, clock, logFile,
           truncations, handler, incoming, sent, logged, aborted, console,
           exitStatus, interruptedAt >>

\* The log a previous run left behind: its header and one entry.
PreviousLog ==
    << << "Mock Telemetry Server Log Started: ", "earlier" >>,
       RULE,
       << "earlier", " - ", "0", " bytes from ", client_ip >>,
       << "Headers: ", "{", "}" >>,
       << "Data: " >>,
       SEPARATOR >>

\* A listener that handles no request.
Idle ==
    [pc |-> "idle", req |-> CHOOSE r \in Requests : r.method = "GET",
     post_data |-> << >>, timestamp |-> 0, buf |-> << >>, entry |-> << >>]

\* The process as main() is entered.  (The early requests carry ASCII text
\* only, which every locale encoding writes alike: one encoding stands for all.)
Init ==
    /\ mainPc = "init"
    /\ nextServer = 1
    /\ listener = [p \in Ports |-> "unstarted"]
    /\ portState \in PortStates
    /\ encoding = "utf-8"
    /\ clock = 0
    /\ logFile = PreviousLog
    /\ truncations = 0
    /\ handler = [p \in Ports |-> Idle]
    /\ incoming = MaxEarlyRequests
    /\ sent = << >>
    /\ logged = << >>
    /\ aborted = << >>
    /\ console = { }
    /\ exitStatus = "running"
    /\ interruptedAt = "never"

\* The process exists: after it exits no thread runs, daemon threads included.
Alive == mainPc # "exited"

\* ------------------------------------------------------------- main thread

\* time.strftime: the wall clock at second resolution.
strftime == ToString(clock)

\* The two lines main writes into the fresh file.
LogHeader ==
    << << "Mock Telemetry Server Log Started: ", strftime >>,
       RULE >>

\* main: open('intercepted_telemetry.log', 'w') truncates the file.
main_truncate ==
    /\ mainPc = "init"
    /\ logFile' = << >>
    /\ truncations' = truncations + 1
    /\ mainPc' = "header"
    /\ UNCHANGED << nextServer, listener, portState, encoding, clock, handler,
                    incoming, sent, logged, aborted, console, exitStatus, interruptedAt >>

\* main: the two header writes, on disk when the with block closes the file.
main_write_header ==
    /\ mainPc = "header"
    /\ logFile' = logFile \o LogHeader
    /\ mainPc' = "spawn"
    /\ UNCHANGED << nextServer, listener, portState, encoding, clock,
                    truncations, handler, incoming, sent, logged, aborted,
                    console, exitStatus, interruptedAt >>

\* main: threading.Thread(target=start_server, ...), daemon = True, start().
main_start_thread ==
    /\ mainPc = "spawn"
    /\ nextServer <= Len(servers)
    /\ listener' = [listener EXCEPT ![servers[nextServer].port] = "started"]
    /\ mainPc' = "sleep"
    /\ UNCHANGED << nextServer, portState, encoding, clock, logFile,
                    truncations, handler, incoming, sent, logged, aborted,
                    console, exitStatus, interruptedAt >>

\* main: time.sleep(0.1) returns and the for loop goes on.
main_sleep ==
    /\ mainPc = "sleep"
    /\ nextServer' = nextServer + 1
    /\ mainPc' = "spawn"
    /\ UNCHANGED << listener, portState, encoding, clock, logFile, truncations,
                    handler, incoming, sent, logged, aborted, console,
                    exitStatus, interruptedAt >>

\* main: the loop is over; the notices are printed and the try block with the
\* "while True: time.sleep(1)" loop is entered.
main_wait ==
    /\ mainPc = "spawn"
    /\ nextServer > Len(servers)
    /\ console' = console \cup { << "Mock servers started", 0 >> }
    /\ mainPc' = "wait"
    /\ UNCHANGED << nextServer, listener, portState, encoding, clock, logFile,
                    truncations, handler, incoming, sent, logged, aborted,
                    exitStatus, interruptedAt >>

\* SIGINT: KeyboardInterrupt is raised in the main thread.  Inside the try
\* block it is caught: the notice is printed and sys.exit(0) runs.  Anywhere
\* else in main nothing catches it: the interpreter prints the traceback and
\* the process ends by the signal.  Daemon threads end with the process, and
\* with them the requests they were handling and the text in their buffers.
KeyboardInterrupt ==
    /\ Alive
    /\ IF mainPc = "wait"
       THEN /\ console' = console \cup { << "Shutting down mock telemetry servers...", 0 >> }
            /\ exitStatus' = "exit(0)"
       ELSE /\ console' = console \cup { << "Traceback: KeyboardInterrupt", 0 >> }
            /\ exitStatus' = "killed by KeyboardInterrupt"
    /\ mainPc' = "exited"
    /\ interruptedAt' = mainPc
    /\ listener' = [p \in Ports |-> IF listener[p] = "unstarted" THEN "unstarted" ELSE "ended"]
    /\ handler' = [p \in Ports |-> Idle]
    /\ UNCHANGED << nextServer, portState, encoding, clock, logFile,
                    truncations, incoming, sent, logged, aborted >>

\* The wall clock advances.
Tick ==
    /\ Alive
    /\ clock < MaxClock
    /\ clock' = clock + 1
    /\ UNCHANGED << mainPc, nextServer, listener, portState, encoding, logFile,
                    truncations, handler, incoming, sent, logged, aborted,
                    console, exitStatus, interruptedAt >>

\* --------------------------------------------------------- listener thread

\* start_server: what it prints for port p.
StartNotice(p) ==
    IF portState[p] = 0 THEN "server running"
    ELSE IF portState[p] = EADDRINUSE THEN "already in use - server not started"
    ELSE "Error starting server"

\* Mutant of AfterBind: an OSError on any port keeps every listener from
\* serving.
AfterBind_all_or_none(p) ==
    IF \A q \in Ports : portState[q] = 0 THEN "serving" ELSE "ended"

\* start_server: the thread after the bind: in serve_forever(), or past the
\* except clause, where the function returns and the thread ends.
AfterBind(p) == IF portState[p] = 0 THEN "serving" ELSE "ended"

\* start_server: TCPServer((127.0.0.1, port), ...) binds or raises OSError;
\* on success serve_forever() runs, on failure the thread ends; either way a
\* notice naming the port is printed.  (KeyboardInterrupt is raised in the
\* main thread only, so the last except clause never runs in a listener.)
start_server(p) ==
    /\ Alive
    /\ listener[p] = "started"
    /\ listener' = [listener EXCEPT ![p] = AfterBind(p)]
    /\ console' = console \cup { << StartNotice(p), p >> }
    /\ UNCHANGED << mainPc, nextServer, portState, encoding, clock, logFile,
                    truncations, handler, incoming, sent, logged, aborted,
                    exitStatus, interruptedAt >>

\* --------------------------------------------------------- request handler

\* f.write(text) on the file object open() returns: a text layer over a
\* buffered writer.  Text is kept while the buffer has room for it; text that
\* does not fit pushes the buffered text to the file in one write and takes
\* its place.  "out" is what reaches the file.  (A text as large as the whole
\* buffer would go to the file itself; no entry of this model has one.)
FileWrite(buf, text) ==
    IF TextSize(buf) + TextSize(text) <= BufferSize
    THEN [buf |-> buf \o text, out |-> << >>]
    ELSE [buf |-> text, out |-> buf]

\* A connection is accepted on a serving listener and the request line and
\* headers are parsed; BaseHTTPRequestHandler then calls do_GET or do_POST.
\* A TCPServer handles one request at a time.
accept(p, r) ==
    /\ Alive
    /\ listener[p] = "serving"
    /\ handler[p].pc = "idle"
    /\ incoming > 0
    /\ incoming' = incoming - 1
    /\ handler' = [handler EXCEPT ![p] =
                     [Idle EXCEPT !.pc = IF r.method = "GET" THEN "do_GET" ELSE "do_POST",
                                  !.req = r]]
    /\ UNCHANGED << mainPc, nextServer, listener, portState, encoding, clock,
                    logFile, truncations, sent, logged, aborted, console,
                    exitStatus, interruptedAt >>

\* do_POST, the content interpretation in the try block: what it prints.
Interpretation(r, post_data) ==
    IF startswith(r.ctype, "application/json")
    THEN IF decode_strict_ok(post_data) /\ json_loads_ok(decode_ignore(post_data))
         THEN "  JSON Data"
         ELSE "  Data parsing error"
    ELSE IF startswith(r.ctype, "application/x-protobuf")
    THEN "  Protocol Buffers data (binary)"
    ELSE "  Raw data"

\* do_POST up to the log write: Content-Length is converted (ValueError ends
\* the handler: socketserver prints the traceback and closes the connection),
\* the body is read, the timestamp is taken, and the console lines are printed.
do_POST_read(p) ==
    /\ Alive
    /\ handler[p].pc = "do_POST"
    /\ LET r == handler[p].req IN
       IF r.has_clen /\ ~int_ok(r.clen)
       THEN /\ handler' = [handler EXCEPT ![p] = Idle]
            /\ aborted' = Append(aborted, [port |-> p, req |-> handler[p].req, error |-> "ValueError"])
            /\ console' = console \cup { << "Traceback: ValueError", 0 >> }
       ELSE LET content_length == IF r.has_clen THEN int_value(r.clen) ELSE 0
                post_data == Take(r.body, content_length)
            IN /\ handler' = [handler EXCEPT ![p].pc = "open",
                                             ![p].post_data = post_data,
                                             ![p].timestamp = clock]
               /\ console' = console \cup { << "INTERCEPTED telemetry", 0 >>,
                                            << Interpretation(r, post_data), 0 >> }
               /\ UNCHANGED aborted
    /\ UNCHANGED << mainPc, nextServer, listener, portState, encoding, clock,
                    logFile, truncations, incoming, sent, logged, exitStatus, interruptedAt >>

\* Mutant of open_append: the handler opens the log with mode 'w'.
open_truncate(file) == << >>

\* The content of a file after open(..., 'a'): what it was.
open_append(file) == file

\* do_POST: open('intercepted_telemetry.log', 'a').  The open succeeds, or it
\* raises OSError, which nothing in do_POST catches.
do_POST_open(p) ==
    /\ Alive
    /\ handler[p].pc = "open"
    /\ \E ok \in BOOLEAN :
         IF ok
         THEN /\ handler' = [handler EXCEPT ![p].pc = "write_size"]
              /\ logFile' = open_append(logFile)
              /\ UNCHANGED << aborted, console >>
         ELSE /\ handler' = [handler EXCEPT ![p] = Idle]
              /\ aborted' = Append(aborted, [port |-> p, req |-> handler[p].req, error |-> "OSError"])
              /\ console' = console \cup { << "Traceback: OSError", 0 >> }
              /\ UNCHANGED logFile
    /\ UNCHANGED << mainPc, nextServer, listener, portState, encoding, clock,
                    truncations, incoming, sent, logged, exitStatus, interruptedAt >>

\* One f.write of the handler of port p, then on to the next statement.
Write(p, text, next) ==
    LET w == FileWrite(handler[p].buf, text) IN
    /\ logFile' = logFile \o w.out
    /\ handler' = [handler EXCEPT ![p].buf = w.buf,
                                  ![p].entry = handler[p].entry \o text,
                                  ![p].pc = next]

\* len(post_data)
data_size(h) == Len(h.post_data)

\* f"{timestamp} - {data_size} bytes from {client_ip}\n"
SizeLine(h) ==
    << ToString(h.timestamp), " - ", ToString(data_size(h)), " bytes from ", client_ip >>

\* f"Headers: {dict(self.headers)}\n"
HeadersLine(h) == << "Headers: " >> \o HeadersDict(h.req)

\* The inner try of the log write: the body decoded with errors='ignore' goes
\* out as "Data: ..."; when that raises (the file's encoder rejects the text)
\* the bare except writes "Binary data: ..." instead.
DataText(h, enc) ==
    IF encode_ok(enc, decode_ignore(h.post_data))
    THEN SplitLines(<< "Data: " >>, decode_ignore(h.post_data))
    ELSE << << "Binary data: ", ToString(data_size(h)), " bytes" >> >>

do_POST_write_size(p) ==
    /\ Alive
    /\ handler[p].pc = "write_size"
    /\ Write(p, << SizeLine(handler[p]) >>, "write_headers")
    /\ UNCHANGED << mainPc, nextServer, listener, portState, encoding, clock,
                    truncations, incoming, sent, logged, aborted, console,
                    exitStatus, interruptedAt >>

do_POST_write_headers(p) ==
    /\ Alive
    /\ handler[p].pc = "write_headers"
    /\ Write(p, << HeadersLine(handler[p]) >>, "write_data")
    /\ UNCHANGED << mainPc, nextServer, listener, portState, encoding, clock,
                    truncations, incoming, sent, logged, aborted, console,
                    exitStatus, interruptedAt >>

do_POST_write_data(p) ==
    /\ Alive
    /\ handler[p].pc = "write_data"
    /\ Write(p, DataText(handler[p], encoding), "write_separator")
    /\ UNCHANGED << mainPc, nextServer, listener, portState, encoding, clock,
                    truncations, incoming, sent, logged, aborted, console,
                    exitStatus, interruptedAt >>

do_POST_write_separator(p) ==
    /\ Alive
    /\ handler[p].pc = "write_separator"
    /\ Write(p, << SEPARATOR >>, "close")
    /\ UNCHANGED << mainPc, nextServer, listener, portState, encoding, clock,
                    truncations, incoming, sent, logged, aborted, console,
                    exitStatus, interruptedAt >>

\* Mutant of do_POST_close: the response is sent from inside the with block,
\* while the buffer still holds text.
do_POST_close_unflushed(p) ==
    /\ Alive
    /\ handler[p].pc = "close"
    /\ logged' = Append(logged, [port |-> p, req |-> handler[p].req,
                                  post_data |-> handler[p].post_data,
                                  lines |-> handler[p].entry])
    /\ handler' = [handler EXCEPT ![p].pc = "respond"]
    /\ UNCHANGED << mainPc, nextServer, listener, portState, encoding, clock,
                    logFile, truncations, incoming, sent, aborted, console,
                    exitStatus, interruptedAt >>

\* do_POST: the with block ends; closing the file writes out the buffer.
do_POST_close(p) ==
    /\ Alive
    /\ handler[p].pc = "close"
    /\ logFile' = logFile \o handler[p].buf
    /\ logged' = Append(logged, [port |-> p, req |-> handler[p].req,
                                  post_data |-> handler[p].post_data,
                                  lines |-> handler[p].entry])
    /\ handler' = [handler EXCEPT ![p].buf = << >>, ![p].pc = "respond"]
    /\ UNCHANGED << mainPc, nextServer, listener, portState, encoding, clock,
                    truncations, incoming, sent, aborted, console, exitStatus, interruptedAt >>

\* The timestamp do_POST puts into its response.
ResponseTimestamp(h) == ToString(h.timestamp)

\* do_POST: send_response(200), the header, and the JSON body.
do_POST_respond(p) ==
    /\ Alive
    /\ handler[p].pc = "respond"
    /\ sent' = Append(sent,
                 [port |-> p, method |-> "POST", code |-> 200,
                  ctype |-> "application/json",
                  body |-> [status |-> "ok", message |-> "telemetry received",
                            timestamp |-> ResponseTimestamp(handler[p])]])
    /\ handler' = [handler EXCEPT ![p] = Idle]
    /\ UNCHANGED << mainPc, nextServer, listener, portState, encoding, clock,
                    logFile, truncations, incoming, logged, aborted, console,
                    exitStatus, interruptedAt >>

\* Mutant of do_GET_log: do_GET appends a line to the log file.
do_GET_log_append(file) == Append(file, << "GET request" >>)

\* What do_GET does to the log file: nothing.
do_GET_log(file) == file

\* do_GET: the console line and the health response.
do_GET(p) ==
    /\ Alive
    /\ handler[p].pc = "do_GET"
    /\ console' = console \cup { << "GET request", 0 >> }
    /\ sent' = Append(sent,
                 [port |-> p, method |-> "GET", code |-> 200,
                  ctype |-> "application/json",
                  body |-> [status |-> "healthy", service |-> "mock-telemetry-server",
                            timestamp |-> strftime]])
    /\ logFile' = do_GET_log(logFile)
    /\ handler' = [handler EXCEPT ![p] = Idle]
    /\ UNCHANGED << mainPc, nextServer, listener, portState, encoding, clock,
                    truncations, incoming, logged, aborted, exitStatus, interruptedAt >>

\* ------------------------------------------------------------ specification

Next ==
    \/ main_truncate
    \/ main_write_header
    \/ main_start_thread
    \/ main_sleep
    \/ main_wait
    \/ KeyboardInterrupt
    \/ Tick
    \/ \E p \in Ports : start_server(p)
    \/ \E p \in Ports, r \in EarlyRequests : accept(p, r)
    \/ \E p \in Ports : do_POST_read(p)
    \/ \E p \in Ports : do_POST_open(p)
    \/ \E p \in Ports : do_POST_write_size(p)
    \/ \E p \in Ports : do_POST_write_headers(p)
    \/ \E p \in Ports : do_POST_write_data(p)
    \/ \E p \in Ports : do_POST_write_separator(p)
    \/ \E p \in Ports : do_POST_close(p)
    \/ \E p \in Ports : do_POST_respond(p)
    \/ \E p \in Ports : do_GET(p)

Spec == Init /\ [][Next]_vars

\* The process once main idles in its wait loop and every listener thread has
\* bound its port or ended: a state Spec reaches, for each state of the ports.
InitServing ==
    /\ mainPc = "wait"
    /\ nextServer = Len(servers) + 1
    /\ portState \in PortStates
    /\ listener = [p \in Ports |-> AfterBind(p)]
    /\ encoding \in { "utf-8", "ascii" }
    /\ clock = 0
    /\ logFile = LogHeader
    /\ truncations = 1
    /\ handler = [p \in Ports |-> Idle]
    /\ incoming = MaxRequests
    /\ sent = << >>
    /\ logged = << >>
    /\ aborted = << >>
    /\ console = { << "Mock servers started", 0 >> }
                 \cup { << StartNotice(p), p >> : p \in Ports }
    /\ exitStatus = "running"
    /\ interruptedAt = "never"

NextServing ==
    \/ KeyboardInterrupt
    \/ Tick
    \/ \E p \in Ports, r \in Requests : accept(p, r)
    \/ \E p \in Ports : do_POST_read(p)
    \/ \E p \in Ports : do_POST_open(p)
    \/ \E p \in Ports : do_POST_write_size(p)
    \/ \E p \in Ports : do_POST_write_headers(p)
    \/ \E p \in Ports : do_POST_write_data(p)
    \/ \E p \in Ports : do_POST_write_separator(p)
    \/ \E p \in Ports : do_POST_close(p)
    \/ \E p \in Ports : do_POST_respond(p)
    \/ \E p \in Ports : do_GET(p)

SpecServing == InitServing /\ [][NextServing]_vars

\* The scheduler runs every runnable thread and sleeps return: each step of
\* main and each listener's bind happens unless the process ends first.
FairSpec ==
    /\ Spec
    /\ WF_vars(main_truncate)
    /\ WF_vars(main_write_header)
    /\ WF_vars(main_start_thread)
    /\ WF_vars(main_sleep)
    /\ WF_vars(main_wait)
    /\ \A p \in Ports : WF_vars(start_server(p))

\* ------------------------------------------------------ helpers for claims

IsPrefix(a, b) == Len(a) <= Len(b) /\ SubSeq(b, 1, Len(a)) = a

\* The lines of e stand next to each other, in order, somewhere in file.
Contiguous(e, file) ==
    \E k \in 0..(Len(file) - Len(e)) : SubSeq(file, k + 1, k + Len(e)) = e

\* The lines of e occur in file in order, possibly with others in between.
RECURSIVE IsSubsequence(_, _)
IsSubsequence(e, file) ==
    IF e = << >> THEN TRUE
    ELSE IF file = << >> THEN FALSE
    ELSE IF Head(e) = Head(file) THEN IsSubsequence(Tail(e), Tail(file))
    ELSE IsSubsequence(e, Tail(file))

\* The entries a reader of the file counts: its "---" lines.
SeparatorLines(file) == { k \in DOMAIN file : file[k] = SEPARATOR }

\* The POST requests answered with 200.
AnsweredPosts == { i \in DOMAIN sent : sent[i].method = "POST" /\ sent[i].code = 200 }

\* No request is being handled.
Quiescent == Alive /\ \A p \in Ports : handler[p].pc = "idle"

\* This run's header is the first content of the file.
HeaderFirst ==
    /\ Len(logFile) >= 2
    /\ \E t \in 0..clock :
         logFile[1] = << "Mock Telemetry Server Log Started: ", ToString(t) >>
    /\ logFile[2] = RULE

\* The acknowledgment body of do_POST with timestamp ts.
AckBody(ts) == [status |-> "ok", message |-> "telemetry received", timestamp |-> ts]

\* The health body of do_GET with timestamp ts.
HealthBody(ts) ==
    [status |-> "healthy", service |-> "mock-telemetry-server", timestamp |-> ts]

\* ------------------------------------------------------------------ claims

\* C1: every POST request that reaches the handler is answered with HTTP 200
\* and the acknowledgment body, whatever its content type and body: no handler
\* of a POST ends without its log append and its response.
C1_EveryPostIsAcknowledged ==
    /\ aborted = << >>
    /\ \A i \in DOMAIN sent :
         sent[i].method = "POST" =>
           /\ sent[i].code = 200
           /\ sent[i].body = AckBody(sent[i].body.timestamp)

\* C2: a POST whose Content-Length header is absent or is no valid integer is
\* handled as a zero-length body: nothing is read, no error is raised by the
\* conversion, and the request goes on to be logged with byte count 0.
C2_UnusableContentLengthReadsNothing ==
    /\ \A i \in DOMAIN aborted : aborted[i].error # "ValueError"
    /\ \A p \in Ports :
         ( /\ handler[p].pc \notin { "idle", "do_GET", "do_POST" }
           /\ ~(handler[p].req.has_clen /\ int_ok(handler[p].req.clen)) )
         => handler[p].post_data = << >>

\* C3: the entries of POST requests handled at the same time by different
\* listeners are contiguous in the log file: no line of another entry stands
\* between the lines of a closed entry.
C3_EntriesAreContiguous ==
    \A i \in DOMAIN logged : Contiguous(logged[i].lines, logFile)

\* C4: the log file is truncated once per run, before any listener thread is
\* started; from then on this run's header is the first content of the file
\* and every write appends: the content only grows.
C4_TruncatedOnceThenAppendOnly ==
    /\ [] ( /\ truncations <= 1
            /\ (\E p \in Ports : listener[p] # "unstarted")
                 => (truncations = 1 /\ HeaderFirst)
            /\ (mainPc \notin { "init", "header" } /\ interruptedAt \notin { "init", "header" })
                 => (truncations = 1 /\ HeaderFirst) )
    /\ [][ mainPc # "init" => (truncations' = truncations /\ IsPrefix(logFile, logFile')) ]_vars

\* A listener has appended an entry behind the header.
C4_Witness ==
    /\ truncations = 1
    /\ logged # << >>
    /\ HeaderFirst
    /\ Len(logFile) > 2

\* C5: a bind failure on a port only skips that port's listener: the failure
\* is printed, main goes on to start every listener, and each listener whose
\* port can be bound serves, whichever ports fail; every port that can bind
\* ends up serving unless the process is interrupted first.
C5_BindFailureSkipsOnlyThatListener ==
    /\ [] ( /\ \A p \in Ports :
                 (Alive /\ listener[p] \in { "serving", "ended" })
                   => /\ (listener[p] = "serving") <=> (portState[p] = 0)
                      /\ << StartNotice(p), p >> \in console
            /\ mainPc = "wait" => \A p \in Ports : listener[p] # "unstarted"
            /\ exitStatus # "running" => interruptedAt # "never" )
    /\ <> ( \/ ~Alive
            \/ \A p \in Ports : portState[p] = 0 => listener[p] = "serving" )

\* A listener answers a request while another port's listener ended on a
\* bind failure that was printed.
C5_Witness ==
    \E p, q \in Ports :
      /\ portState[p] # 0
      /\ listener[p] = "ended"
      /\ << StartNotice(p), p >> \in console
      /\ listener[q] = "serving"
      /\ \E i \in DOMAIN sent : sent[i].port = q

C7_UndecodableBodyLoggedAsBinary ==
    \A i \in DOMAIN logged :
      ( /\ startswith(logged[i].req.ctype, "application/x-protobuf")
        /\ ~decode_strict_ok(logged[i].post_data) )
      => /\ logged[i].lines[1][3] = ToString(Len(logged[i].post_data))
         /\ logged[i].lines[3] =
              << "Binary data: ", ToString(Len(logged[i].post_data)), " bytes" >>

\* C8: after an interrupt in the startup loop or in the wait loop the process
\* has printed the shutdown notice and exited.
C8_InterruptPrintsShutdownNotice ==
    (mainPc = "exited" /\ interruptedAt \in { "spawn", "sleep", "wait" })
    => /\ << "Shutting down mock telemetry servers...", 0 >> \in console
       /\ exitStatus = "exit(0)"

\* C9: when no request is being handled, the number of "---"-terminated
\* entries in the log file equals the number of POST requests answered
\* with 200.
C9_EntriesEqualAnsweredPosts ==
    Quiescent => Cardinality(SeparatorLines(logFile)) = Cardinality(AnsweredPosts)

\* C10: when do_POST sends its response the file is closed and the whole
\* entry is in the log file, the response carries the entry's timestamp, and
\* a POST whose handler raised gets no response.
C10_EntryWrittenBeforeResponse ==
    [][ /\ \A p \in Ports :
             (handler[p].pc = "respond" /\ handler'[p].pc = "idle" /\ Len(sent') > Len(sent))
             => /\ handler[p].buf = << >>
                /\ IsSubsequence(handler[p].entry, logFile)
                /\ handler[p].entry[Len(handler[p].entry)] = SEPARATOR
                /\ sent'[Len(sent')].code = 200
                /\ sent'[Len(sent')].body = AckBody(handler[p].entry[1][1])
        /\ Len(aborted') > Len(aborted) => sent' = sent ]_vars

\* A POST was answered and its entry, with the response's timestamp, is in
\* the log file after the clock moved on.
C10_Witness ==
    /\ clock > 0
    /\ \E i \in DOMAIN sent, j \in DOMAIN logged :
         /\ sent[i].method = "POST"
         /\ sent[i].port = logged[j].port
         /\ logged[j].lines[1][1] = sent[i].body.timestamp
         /\ sent[i].body.timestamp = "0"
         /\ Contiguous(logged[j].lines, logFile)

====
